---- MODULE Spec2Model ----
(***************************************************************************)
(* BookMyBook: the checkout workflow (createCheckoutSession /              *)
(* completeCheckout in app/actions/stripe.ts, the cart and dashboard       *)
(* pages) and the conversation aggregator (the GET / POST message          *)
(* handlers), over the relational store with the row-level policies of     *)
(* the migration scripts.                                                  *)
(*                                                                         *)
(* Prices are DECIMAL(10,2); a price is held as its number of hundredths   *)
(* (199.00 is 19900), so price * 100 is the rational price * 100 / 100.    *)
(***************************************************************************)
EXTENDS FiniteSets, Integers, Sequences, TLC

\* ---------------------------------------------------------------- bounds
MaxCartIds == 2
MaxSessions == 1
MaxOrders == 2
MaxQty == 2
MaxMessages == 2

Users == {"u1", "u2"}
NoUser == "none"
ListingIds == {"L1", "L2"}
\* seller and price (in hundredths) of the listings on sale
ListingRows ==
  [L1 |-> [seller_id |-> "u1", price |-> 19900, status |-> "available"],
   L2 |-> [seller_id |-> "u2", price |-> 35000, status |-> "available"]]
Slots == {1, 2}

CartIdNames == <<"c1", "c2", "c3", "c4", "c5", "c6">>
HandleNames == <<"cs_1", "cs_2", "cs_3", "cs_4">>
SecretNames == <<"cs_1_secret", "cs_2_secret", "cs_3_secret", "cs_4_secret">>
IntentNames == <<"pi_1", "pi_2", "pi_3", "pi_4">>

VARIABLES
  listings,     \* table listings: id -> [seller_id, price, status]
  cart_items,   \* table cart_items: set of [id, buyer_id, listing_id, quantity]
  orders,       \* table orders, in insertion order
  sessions,     \* the payment provider's checkout sessions, by creation order
  calls,        \* completeCheckout invocations in flight, by slot
  nextCartId,   \* number of cart ids generated so far + 1
  finalized,    \* history: <<caller, session id>> of the completeCheckout
                \* invocations that returned success
  messages,     \* table messages, in insertion order (id = position)
  clock,        \* the store's CURRENT_TIMESTAMP
  schema,       \* the script that created cart_items (CREATE TABLE IF NOT
                \* EXISTS: the first script run decides the table)
  chat,         \* the open thread view (ChatInterface) of ChatViewer and the
                \* thread request the server is handling for it
  cartPage,     \* the open cart page (CartPage) of CartViewer
  last          \* the step that produced the current state, with its outcome

checkoutVars == <<listings, cart_items, orders, sessions, calls, nextCartId,
                  finalized, schema>>
msgVars == <<messages, clock>>
pageVars == <<chat, cartPage>>
vars == <<listings, cart_items, orders, sessions, calls, nextCartId, finalized,
          messages, clock, schema, chat, cartPage, last>>

Idle == [pc |-> "idle"]

\* the signed-in users of the two open pages and the viewer's counterpart
ChatViewer == "u1"
ChatOther == "u2"
CartViewer == "u1"
\* the cart page's event handlers that can be running at once
Handlers == {"h1", "h2"}

\* ------------------------------------------------------- pure helpers
RECURSIVE SeqOf(_)
\* the rows of a query result as a list (the store returns them in an
\* unspecified order; no modelled step depends on the order of this list)
SeqOf(S) ==
  IF S = {} THEN <<>>
  ELSE LET x == CHOOSE y \in S : TRUE IN <<x>> \o SeqOf(S \ {x})

Range(s) == {s[i] : i \in 1..Len(s)}

RECURSIVE Join(_)
\* Array.prototype.join(","): the ids as one string, a list of tokens
Join(s) ==
  IF Len(s) = 0 THEN <<>>
  ELSE IF Len(s) = 1 THEN <<s[1]>>
  ELSE <<s[1], ",">> \o Join(Tail(s))

RECURSIVE SplitFrom(_, _)
SplitFrom(s, cur) ==
  IF s = <<>> THEN <<cur>>
  ELSE IF Head(s) = "," THEN <<cur>> \o SplitFrom(Tail(s), "")
  ELSE SplitFrom(Tail(s), Head(s))

\* String.prototype.split(","): "" splits into the one field ""
Split(s) == SplitFrom(s, "")

\* Math.round(n / d) for n >= 0, d > 0: round half up
MathRound(n, d) == (2 * n + d) \div (2 * d)

\* the error of the double product price * 100, in thousandths of a minor
\* unit: a DECIMAL(10,2) price times 100 is off by far less than that
FloatErr == {-1, 0, 1}

\* mutant: Math.floor in place of Math.round
UnitAmount_Floor(price, err) == (price * 1000 + err) \div 1000

\* Math.round(item.listings.price * 100), the price held in hundredths and
\* the double product being inexact by err thousandths
UnitAmount(price, err) == MathRound(price * 1000 + err, 1000)

\* mutant: the handler goes on without a signed-in user
Authenticated_Always(u) == TRUE

\* supabase.auth.getUser(): "if (!user)" rejects the request
Authenticated(u) == u # NoUser

\* ------------------------------------------------ row-level policies
\* listings_update_own: FOR UPDATE USING (auth.uid() = seller_id)
listings_update_own(uid, l) == listings[l].seller_id = uid

\* cart_items_select_own / cart_items_delete_own / cart_items_update_own
cart_items_own(uid, c) == c.buyer_id = uid

\* mutant: the insert also refused once the listing has an order
orders_insert_own_OncePerListing(uid, o) ==
  /\ o.buyer_id = uid
  /\ \A i \in 1..Len(orders) : orders[i].listing_id # o.listing_id

\* orders_insert_own: FOR INSERT WITH CHECK (auth.uid() = buyer_id)
orders_insert_own(uid, o) == o.buyer_id = uid

\* the scripts that create cart_items: 004_create_orders_and_cart.sql (and
\* 01_create_cart_and_orders_schema.sql) with UNIQUE(buyer_id, listing_id),
\* init-db.js (and run-migrations.js) without it
Schemas == {"004_create_orders_and_cart.sql", "init-db.js"}

\* UNIQUE(buyer_id, listing_id) on cart_items, where the schema has it
cart_items_unique(row) ==
  schema = "004_create_orders_and_cart.sql" =>
    \A c \in cart_items : ~(c.buyer_id = row.buyer_id /\ c.listing_id = row.listing_id)

\* --------------------------------------------------------------- Init
Init ==
  /\ listings = ListingRows
  /\ cart_items = {}
  /\ orders = <<>>
  /\ sessions = <<>>
  /\ calls = [s \in Slots |-> Idle]
  /\ nextCartId = 1
  /\ finalized = {}
  /\ messages = <<>>
  /\ clock = 1
  /\ schema \in Schemas
  /\ chat = [view |-> <<>>, get |-> Idle, response |-> Idle, send |-> Idle]
  /\ cartPage = [loaded |-> FALSE, cartItems |-> {}, total |-> 0,
                 updatingId |-> "null", handlers |-> [h \in Handlers |-> Idle]]
  /\ last = [op |-> "init", outcome |-> "ok"]

\* ------------------------------------------------------ issued names
IssuedCartIds == {CartIdNames[i] : i \in 1..(nextCartId - 1)}
SessionIdx == 1..Len(sessions)
KnownHandles == {sessions[i].id : i \in SessionIdx}
                  \cup {sessions[i].client_secret : i \in SessionIdx}

\* ------------------------------------------------- listing page: cart
\* handleAddToCart: insert {buyer_id: user.id, listing_id, quantity: 1}
AddToCart(u, l) ==
  /\ nextCartId <= MaxCartIds
  /\ LET row == [id |-> CartIdNames[nextCartId], buyer_id |-> u,
                 listing_id |-> l, quantity |-> 1]
     IN IF ~Authenticated(u)
        THEN /\ UNCHANGED <<cart_items, nextCartId>>
             /\ last' = [op |-> "addToCart", outcome |-> "login"]
        ELSE IF cart_items_unique(row)
        THEN /\ cart_items' = cart_items \cup {row}
             /\ nextCartId' = nextCartId + 1
             /\ last' = [op |-> "addToCart", outcome |-> "ok"]
        ELSE /\ UNCHANGED <<cart_items, nextCartId>>
             /\ last' = [op |-> "addToCart", outcome |-> "error"]
  /\ UNCHANGED <<listings, orders, sessions, calls,
               finalized, messages, clock, schema, pageVars>>

\* ---------------------------------------------------------- cart page
\* handleRemoveItem: delete from cart_items where id = cartItemId
RemoveItem(u, cid) ==
  /\ \E c \in cart_items : c.id = cid /\ c.buyer_id = u
  /\ cart_items' = {c \in cart_items : ~(c.id = cid /\ cart_items_own(u, c))}
  /\ last' = [op |-> "removeItem", outcome |-> "ok"]
  /\ UNCHANGED <<listings, orders, sessions, calls, nextCartId,
               finalized, messages, clock, schema, pageVars>>

\* handleUpdateQuantity: update cart_items set quantity where id = cartItemId
UpdateQuantity(u, cid, newQuantity) ==
  /\ \E c \in cart_items : c.id = cid /\ c.buyer_id = u
  /\ newQuantity <= MaxQty
  /\ IF newQuantity < 1
     THEN UNCHANGED cart_items
     ELSE cart_items' =
            {IF c.id = cid /\ cart_items_own(u, c)
               THEN [c EXCEPT !.quantity = newQuantity] ELSE c : c \in cart_items}
  /\ last' = [op |-> "updateQuantity", outcome |-> "ok"]
  /\ UNCHANGED <<listings, orders, sessions, calls, nextCartId,
               finalized, messages, clock, schema, pageVars>>

RECURSIVE CartTotal(_)
\* cart page, fetchCart: reduce(sum + item.listings.price * item.quantity)
CartTotal(rows) ==
  IF rows = {} THEN 0
  ELSE LET r == CHOOSE x \in rows : TRUE
       IN listings[r.listing_id].price * r.quantity + CartTotal(rows \ {r})

\* ---------------------------------------------------- seller dashboard
\* handleDelete: update listings set status = 'removed' where id = listingId
handleDelete(u, l) ==
  /\ listings[l].seller_id = u
  /\ listings' = IF listings_update_own(u, l)
                   THEN [listings EXCEPT ![l].status = "removed"]
                   ELSE listings
  /\ last' = [op |-> "handleDelete", outcome |-> "ok"]
  /\ UNCHANGED <<cart_items, orders, sessions, calls, nextCartId,
               finalized, messages, clock, schema, pageVars>>

\* ------------------------------------------------ createCheckoutSession
\* mutant: the select without .eq("buyer_id", user.id) and without the policy
CartRows_AnyBuyer(u, ids) ==
  {[id |-> c.id, listing_id |-> c.listing_id,
    price |-> listings[c.listing_id].price,
    seller_id |-> listings[c.listing_id].seller_id] :
     c \in {x \in cart_items : x.id \in ids}}

\* select id, listing_id, listings(price, ...) from cart_items
\*   where id in cartItemIds and buyer_id = user.id
CartRows(u, ids) ==
  {[id |-> c.id, listing_id |-> c.listing_id,
    price |-> listings[c.listing_id].price,
    seller_id |-> listings[c.listing_id].seller_id] :
     c \in {x \in cart_items : x.id \in ids /\ cart_items_own(u, x) /\ x.buyer_id = u}}

\* one line item of the session; cart_item is not sent to the provider, it
\* records the cart row the line item was built from
LineItem(item, err) ==
  [unit_amount |-> UnitAmount(item.price, err), quantity |-> 1, cart_item |-> item.id]

LineItems(rows, errs) == [i \in 1..Len(rows) |-> LineItem(rows[i], errs[rows[i].id])]

NewSession(u, cartItemIds, cartItems, errs) ==
  LET n == Len(sessions) + 1
  IN [id |-> HandleNames[n], client_secret |-> SecretNames[n],
      payment_status |-> "unpaid", payment_intent |-> "null",
      line_items |-> LineItems(SeqOf(cartItems), errs),
      metadata |-> [buyer_id |-> u, cart_item_ids |-> Join(SeqOf(cartItemIds))]]

createCheckoutSession(u, cartItemIds) ==
  /\ Len(sessions) < MaxSessions
  /\ LET cartItems == CartRows(u, cartItemIds)
     IN IF ~Authenticated(u)
        THEN /\ UNCHANGED sessions
             /\ last' = [op |-> "createCheckoutSession",
                         outcome |-> "User not authenticated"]
        ELSE IF Cardinality(cartItems) = 0
        THEN /\ UNCHANGED sessions
             /\ last' = [op |-> "createCheckoutSession",
                         outcome |-> "Cart items not found"]
        ELSE /\ \E errs \in [{r.id : r \in cartItems} -> FloatErr] :
                  sessions' = Append(sessions, NewSession(u, cartItemIds, cartItems, errs))
             /\ last' = [op |-> "createCheckoutSession", outcome |-> "ok"]
  /\ UNCHANGED <<listings, cart_items, orders, calls, nextCartId,
               finalized, messages, clock, schema, pageVars>>

\* ---------------------------------------------------- payment provider
\* the buyer pays in the embedded checkout: the session becomes paid
ProviderPay(n) ==
  /\ sessions[n].payment_status = "unpaid"
  /\ sessions' = [sessions EXCEPT ![n].payment_status = "paid",
                                  ![n].payment_intent = IntentNames[n]]
  /\ last' = [op |-> "providerPay", outcome |-> "ok"]
  /\ UNCHANGED <<listings, cart_items, orders, calls, nextCartId,
               finalized, messages, clock, schema, pageVars>>

\* ------------------------------------------------------ completeCheckout
\* stripe.checkout.sessions.retrieve(sessionId): the session with that id
SessionOf(h) == {i \in SessionIdx : sessions[i].id = h}

\* mutant: any session that exists counts as paid
PaymentCompleted_Any(session) == session.payment_status \in {"paid", "unpaid"}

\* line 124: session.payment_status !== "paid" throws
PaymentCompleted(session) == session.payment_status = "paid"

FreeSlot == CHOOSE s \in Slots : calls[s].pc = "idle" /\ \A t \in Slots : calls[t].pc = "idle" => s <= t

Done(call, outcome) ==
  [op |-> "completeCheckout", outcome |-> outcome,
   again |-> <<call.user, call.sid>> \in finalized]

\* lines 113-144: identity, the session, its metadata, the cart rows
CC_Start(u, h) ==
  /\ \E s \in Slots : calls[s].pc = "idle"
  /\ IF ~Authenticated(u)
     THEN /\ last' = [op |-> "completeCheckout",
                      outcome |-> "User not authenticated"]
          /\ UNCHANGED calls
     ELSE IF SessionOf(h) = {}
     THEN /\ last' = [op |-> "completeCheckout",
                      outcome |-> "No such checkout session"]
          /\ UNCHANGED calls
     ELSE LET n == CHOOSE i \in SessionOf(h) : TRUE
              session == sessions[n]
              cartItemIds == Split(session.metadata.cart_item_ids)
              cartItems == CartRows(u, Range(cartItemIds))
          IN IF ~PaymentCompleted(session)
             THEN /\ last' = [op |-> "completeCheckout",
                              outcome |-> "Payment not completed"]
                  /\ UNCHANGED calls
             ELSE /\ calls' = [calls EXCEPT ![FreeSlot] =
                       [pc |-> "loop", user |-> u, sid |-> h,
                        payment_intent |-> session.payment_intent,
                        cartItemIds |-> Range(cartItemIds),
                        matched |-> cartItems, todo |-> cartItems,
                        item |-> "none", made |-> 0, failed |-> FALSE]]
                  /\ last' = [op |-> "completeCheckout.fetch", outcome |-> "ok"]
  /\ UNCHANGED <<listings, cart_items, orders, sessions, nextCartId,
               finalized, messages, clock, schema, pageVars>>

\* line 89: what createCheckoutSession returns to the checkout page, which
\* keeps it as sessionId (handleCheckout)
ReturnedToPage(session) == session.client_secret

\* an invocation of completeCheckout made while none is in flight
completeCheckout(u, h) ==
  /\ \A s \in Slots : calls[s].pc = "idle"
  /\ CC_Start(u, h)

\* checkout page, handleCheckoutComplete: the embedded checkout of the
\* page's session n signals completion, completeCheckout(sessionId)
handleCheckoutComplete(u, n) ==
  /\ sessions[n].metadata.buyer_id = u
  /\ sessions[n].payment_status = "paid"
  /\ completeCheckout(u, ReturnedToPage(sessions[n]))

\* mutant: the insert without status, which defaults to 'pending'
OrderRow_Pending(call, item) ==
  [buyer_id |-> call.user, seller_id |-> item.seller_id,
   listing_id |-> item.listing_id, total_amount |-> item.price,
   status |-> "pending", payment_id |-> call.payment_intent,
   cart_item |-> item.id]

\* the order row of lines 148-155; cart_item is not a column, it records
\* the cart row the order was inserted for
OrderRow(call, item) ==
  [buyer_id |-> call.user, seller_id |-> item.seller_id,
   listing_id |-> item.listing_id, total_amount |-> item.price,
   status |-> "completed", payment_id |-> call.payment_intent,
   cart_item |-> item.id]

\* mutant: a failed insert is skipped and the loop goes on with the next row
CC_InsertOrder_SkipsFailed(s, ok) ==
  /\ calls[s].pc = "loop"
  /\ calls[s].todo # {}
  /\ \E item \in calls[s].todo :
       IF ok /\ orders_insert_own(calls[s].user, OrderRow(calls[s], item))
       THEN /\ Len(orders) < MaxOrders
            /\ orders' = Append(orders, OrderRow(calls[s], item))
            /\ calls' = [calls EXCEPT ![s].pc = "update", ![s].item = item,
                                      ![s].made = @ + 1]
            /\ last' = [op |-> "completeCheckout.insert", outcome |-> "ok"]
       ELSE /\ UNCHANGED orders
            /\ calls' = [calls EXCEPT ![s].todo = @ \ {item}]
            /\ last' = [op |-> "completeCheckout.insert", outcome |-> "skipped"]
  /\ UNCHANGED <<listings, cart_items, sessions, nextCartId,
               finalized, messages, clock, schema, pageVars>>

\* lines 147-157: the next cart row of the loop, its order insert
CC_InsertOrder(s, ok) ==
  /\ calls[s].pc = "loop"
  /\ calls[s].todo # {}
  /\ \E item \in calls[s].todo :
       IF ok /\ orders_insert_own(calls[s].user, OrderRow(calls[s], item))
       THEN /\ Len(orders) < MaxOrders
            /\ orders' = Append(orders, OrderRow(calls[s], item))
            /\ calls' = [calls EXCEPT ![s].pc = "update", ![s].item = item,
                                      ![s].made = @ + 1]
            /\ last' = [op |-> "completeCheckout.insert", outcome |-> "ok"]
       ELSE /\ UNCHANGED orders
            /\ calls' = [calls EXCEPT ![s] = Idle]
            /\ last' = Done(calls[s], "orderError")
  /\ UNCHANGED <<listings, cart_items, sessions, nextCartId,
               finalized, messages, clock, schema, pageVars>>

\* lines 159-160: update listings set status = 'sold' where id = listing_id;
\* the result of the update is not looked at (failed records, for the
\* history only, that the store answered this call's update with an error)
CC_UpdateListing(s, ok) ==
  /\ calls[s].pc = "update"
  /\ LET l == calls[s].item.listing_id
     IN listings' = IF ok /\ listings_update_own(calls[s].user, l)
                      THEN [listings EXCEPT ![l].status = "sold"]
                      ELSE listings
  /\ calls' = [calls EXCEPT ![s].pc = "loop", ![s].item = "none",
                            ![s].todo = @ \ {calls[s].item},
                            ![s].failed = @ \/ ~ok]
  /\ last' = [op |-> "completeCheckout.update", outcome |-> "ok"]
  /\ UNCHANGED <<cart_items, orders, sessions, nextCartId,
               finalized, messages, clock, schema, pageVars>>

\* mutant: success without the delete of the cart rows
CC_Delete_KeepsCart(s, ok) ==
  /\ calls[s].pc = "loop"
  /\ calls[s].todo = {}
  /\ IF ok
     THEN /\ finalized' = finalized \cup {<<calls[s].user, calls[s].sid>>}
          /\ last' = Done(calls[s], "success")
     ELSE /\ UNCHANGED finalized
          /\ last' = Done(calls[s], "deleteError")
  /\ calls' = [calls EXCEPT ![s] = Idle]
  /\ UNCHANGED <<listings, cart_items, orders, sessions, nextCartId, messages, clock, schema, pageVars>>

\* lines 163-168: delete from cart_items where id in cartItemIds
CC_Delete(s, ok) ==
  /\ calls[s].pc = "loop"
  /\ calls[s].todo = {}
  /\ IF ok
     THEN /\ cart_items' = {c \in cart_items :
                ~(c.id \in calls[s].cartItemIds /\ cart_items_own(calls[s].user, c))}
          /\ finalized' = finalized \cup {<<calls[s].user, calls[s].sid>>}
          /\ last' = Done(calls[s], "success")
     ELSE /\ UNCHANGED <<cart_items, finalized>>
          /\ last' = Done(calls[s], "deleteError")
  /\ calls' = [calls EXCEPT ![s] = Idle]
  /\ UNCHANGED <<listings, orders, sessions, nextCartId, messages, clock, schema, pageVars>>

\* ================================================== message handlers
MsgUsers == {"u1", "u2", "u3"}
Undefined == "undefined"

\* messages_select_own: FOR SELECT USING (auth.uid() = sender_id OR auth.uid() = receiver_id)
messages_select_own(uid, m) == uid = m.sender_id \/ uid = m.receiver_id

\* messages_insert_own: FOR INSERT WITH CHECK (auth.uid() = sender_id)
messages_insert_own(uid, m) == uid = m.sender_id

\* the messages table has row level security enabled and no policy FOR
\* UPDATE: an update by an API caller reaches no row
messages_update(uid, m) == FALSE

\* profiles_select_own: FOR SELECT USING (auth.uid() = id)
profiles_select_own(uid, id) == uid = id

\* all orderings of the rows S that ORDER BY created_at may return
Orderings(S, ascending) ==
  {p \in [1..Cardinality(S) -> S] :
      /\ \A i, j \in 1..Cardinality(S) : i # j => p[i] # p[j]
      /\ \A i, j \in 1..Cardinality(S) : i < j =>
            IF ascending THEN p[i].created_at <= p[j].created_at
                         ELSE p[i].created_at >= p[j].created_at}

MessageRows == Range(messages)

\* mutant: every message grouped under its sender
OtherUser_Sender(u, msg) == msg.sender_id

\* line 230: the other participant of a message
OtherUser(u, msg) == IF msg.sender_id = u THEN msg.receiver_id ELSE msg.sender_id

RECURSIVE MapKeys(_, _, _)
\* the keys of the Map of lines 228-235, in insertion order
MapKeys(u, data, seenKeys) ==
  IF data = <<>> THEN <<>>
  ELSE LET k == OtherUser(u, Head(data))
       IN IF k \in seenKeys THEN MapKeys(u, Tail(data), seenKeys)
          ELSE <<k>> \o MapKeys(u, Tail(data), seenKeys \cup {k})

\* conversations.get(k): the messages pushed under key k, in data order
MapGet(u, data, k) == SelectSeq(data, LAMBDA m : OtherUser(u, m) = k)

\* mutant: the filter without the receiver test
IsUnread_AnyDirection(u, m) == ~m.read

\* line 253: m.receiver_id === user.id && !m.read
IsUnread(u, m) == m.receiver_id = u /\ ~m.read

\* the messages of a group that the filter of line 253 keeps
UnreadOf(u, msgs) == SelectSeq(msgs, LAMBDA m : IsUnread(u, m))

\* lines 249-254
Conversation(u, data, k) ==
  LET msgs == MapGet(u, data, k)
  IN [userId |-> k,
      profile |-> IF profiles_select_own(u, k) THEN k ELSE Undefined,
      lastMessage |-> msgs[1],
      unreadCount |-> Len(UnreadOf(u, msgs))]

ConversationList(u, data) ==
  LET keys == MapKeys(u, data, {})
  IN [i \in 1..Len(keys) |-> Conversation(u, data, keys[i])]

\* the rows of the select of lines 209-223
ConversationRows(u) ==
  {m \in MessageRows :
      messages_select_own(u, m) /\ (m.sender_id = u \/ m.receiver_id = u)}

\* mutant: the select ordered oldest first
ListResponses_Ascending(u) ==
  {ConversationList(u, data) : data \in Orderings(ConversationRows(u), TRUE)}

\* the bodies the GET without otherUserId can respond with to caller u:
\* one per order the store may return the rows in
ListResponses(u) ==
  {ConversationList(u, data) : data \in Orderings(ConversationRows(u), FALSE)}

\* GET without otherUserId (lines 196-256): reads only
ListConversations(u) ==
  /\ last' = IF ~Authenticated(u)
               THEN [op |-> "list_conversations", outcome |-> "Unauthorized"]
               ELSE [op |-> "list_conversations", outcome |-> "ok"]
  /\ UNCHANGED <<checkoutVars, msgVars, pageVars>>

\* mutant: the filter as a flat or(...) of the four tests
ThreadRows_FlatOr(u, otherUserId) ==
  {m \in MessageRows :
      /\ messages_select_own(u, m)
      /\ (m.sender_id = u \/ m.receiver_id = otherUserId
            \/ m.sender_id = otherUserId \/ m.receiver_id = u)}

\* the rows of the thread select of lines 259-265
ThreadRows(u, otherUserId) ==
  {m \in MessageRows :
      /\ messages_select_own(u, m)
      /\ \/ m.sender_id = u /\ m.receiver_id = otherUserId
         \/ m.sender_id = otherUserId /\ m.receiver_id = u}

\* mutant: the update run for the messages the caller sent, with a client
\* that bypasses the policies
MarkRead_BySender(u, otherUserId) ==
  [i \in 1..Len(messages) |->
     IF messages[i].sender_id = u /\ messages[i].receiver_id = otherUserId
       THEN [messages[i] EXCEPT !.read = TRUE] ELSE messages[i]]

\* lines 269-270: update messages set read = true
\*   where receiver_id = user.id and sender_id = otherUserId
MarkRead(u, otherUserId) ==
  [i \in 1..Len(messages) |->
     IF /\ messages[i].receiver_id = u
        /\ messages[i].sender_id = otherUserId
        /\ messages_update(u, messages[i])
       THEN [messages[i] EXCEPT !.read = TRUE] ELSE messages[i]]

\* the bodies the GET ?otherUserId= can respond with: the thread, oldest first
ThreadResponses(u, otherUserId) == Orderings(ThreadRows(u, otherUserId), TRUE)

\* GET ?otherUserId= (lines 196-206, 258-272)
GetThread(u, otherUserId) ==
  /\ IF ~Authenticated(u)
     THEN /\ last' = [op |-> "get_thread", outcome |-> "Unauthorized"]
          /\ UNCHANGED messages
     ELSE /\ messages' = MarkRead(u, otherUserId)
          /\ last' = [op |-> "get_thread", outcome |-> "ok"]
  /\ UNCHANGED <<checkoutVars, clock, pageVars>>

\* mutant: only the receiver is required
MissingFields_ReceiverOnly(receiverId, content) == receiverId \in {Undefined, ""}

\* line 311: !receiverId || !content (undefined and "" are falsy)
MissingFields(receiverId, content) ==
  receiverId \in {Undefined, ""} \/ content \in {Undefined, ""}

\* mutant: the sender taken from the request body's receiver
MessageRow_SenderFromBody(u, receiverId, content, listingId, now) ==
  [id |-> Len(messages) + 1, sender_id |-> receiverId,
   receiver_id |-> receiverId, content |-> content,
   listing_id |-> IF listingId = Undefined THEN "null" ELSE listingId,
   read |-> FALSE, created_at |-> now]

\* lines 315-325: the inserted row, with the id and created_at the store
\* generates; .select().single() responds with this stored row
MessageRow(u, receiverId, content, listingId, now) ==
  [id |-> Len(messages) + 1, sender_id |-> u,
   receiver_id |-> receiverId, content |-> content,
   listing_id |-> IF listingId = Undefined THEN "null" ELSE listingId,
   read |-> FALSE, created_at |-> now]

\* POST (lines 301-329): the handler's effect on the messages table
POST(u, receiverId, content, listingId) ==
  /\ IF ~Authenticated(u)
     THEN /\ last' = [op |-> "send_message", outcome |-> "Unauthorized"]
          /\ UNCHANGED <<messages, clock>>
     ELSE IF MissingFields(receiverId, content)
     THEN /\ last' = [op |-> "send_message", outcome |-> "Missing required fields"]
          /\ UNCHANGED <<messages, clock>>
     ELSE /\ Len(messages) < MaxMessages
          /\ \E now \in {clock, clock + 1} :
               LET row == MessageRow(u, receiverId, content, listingId, now)
               IN IF messages_insert_own(u, row)
                  THEN /\ messages' = Append(messages, row)
                       /\ clock' = now
                       /\ last' = [op |-> "send_message", outcome |-> "ok"]
                  ELSE /\ UNCHANGED <<messages, clock>>
                       /\ last' = [op |-> "send_message",
                                   outcome |-> "Failed to send message"]
  /\ UNCHANGED checkoutVars

\* a POST by any client other than the open thread view
SendMessage(u, receiverId, content, listingId) ==
  /\ POST(u, receiverId, content, listingId)
  /\ UNCHANGED pageVars

\* ------------------------------------------ thread view (ChatInterface)
\* GET ?otherUserId= for the thread view, lines 259-267: the select; the
\* handler then holds the rows while its update is on the way to the store
GT_Select(u, otherUserId) ==
  /\ Authenticated(u)
  /\ chat.get = Idle
  /\ chat.response = Idle
  /\ \E data \in ThreadResponses(u, otherUserId) :
        chat' = [chat EXCEPT !.get = [user |-> u, other |-> otherUserId,
                                      data |-> data]]
  /\ last' = [op |-> "get_thread.select", outcome |-> "ok"]
  /\ UNCHANGED <<checkoutVars, msgVars, cartPage>>

\* lines 269-272: the update, then the response with the rows of the select
GT_Update ==
  /\ chat.get # Idle
  /\ messages' = MarkRead(chat.get.user, chat.get.other)
  /\ chat' = [chat EXCEPT !.get = Idle, !.response = [data |-> chat.get.data]]
  /\ last' = [op |-> "get_thread", outcome |-> "ok"]
  /\ UNCHANGED <<checkoutVars, clock, cartPage>>

\* fetchMessages, on mount and every 2 seconds: the response arrives,
\* setMessages(data)
fetchMessages ==
  /\ chat.response # Idle
  /\ chat' = [chat EXCEPT !.view = chat.response.data, !.response = Idle]
  /\ last' = [op |-> "fetchMessages", outcome |-> "ok"]
  /\ UNCHANGED <<checkoutVars, msgVars, cartPage>>

\* handleSendMessage is invoked: it closes over the messages of the render
\* it was created in and sends the POST
handleSendMessage_Fetch ==
  /\ chat.send = Idle
  /\ chat' = [chat EXCEPT !.send = [pc |-> "posting", messages |-> chat.view]]
  /\ last' = [op |-> "handleSendMessage.fetch", outcome |-> "ok"]
  /\ UNCHANGED <<checkoutVars, msgVars, cartPage>>

\* the server handles the POST of the thread view
handleSendMessage_POST ==
  /\ chat.send # Idle
  /\ chat.send.pc = "posting"
  /\ POST(ChatViewer, ChatOther, "hi", Undefined)
  /\ chat' = [chat EXCEPT !.send =
                IF last'.outcome = "ok"
                  THEN [pc |-> "responded", messages |-> chat.send.messages,
                        sentMessage |-> messages'[Len(messages')]]
                  ELSE Idle]
  /\ UNCHANGED cartPage

\* the response arrives: setMessages([...messages, sentMessage])
handleSendMessage_Done ==
  /\ chat.send # Idle
  /\ chat.send.pc = "responded"
  /\ chat' = [chat EXCEPT !.view = Append(chat.send.messages, chat.send.sentMessage),
                          !.send = Idle]
  /\ last' = [op |-> "handleSendMessage", outcome |-> "ok"]
  /\ UNCHANGED <<checkoutVars, msgVars, cartPage>>

NextChat ==
  \/ GT_Select(ChatViewer, ChatOther)
  \/ GT_Update
  \/ fetchMessages
  \/ handleSendMessage_Fetch
  \/ handleSendMessage_POST
  \/ handleSendMessage_Done
  \/ SendMessage(ChatOther, ChatViewer, "hi", Undefined)

\* the open thread view of ChatViewer with ChatOther, who sends as well
SpecChat == Init /\ [][NextChat]_vars

\* the listingId of a request body: absent, or the listing the buyer u2
\* asks its seller about
ListingRefs(u, r) ==
  IF u = "u2" /\ r = ListingRows["L1"].seller_id THEN {Undefined, "L1"} ELSE {Undefined}

MsgCallers == MsgUsers \cup {NoUser}

NextMsg ==
  \/ \E u \in MsgCallers : ListConversations(u)
  \/ \E u \in MsgCallers, x \in MsgUsers : GetThread(u, x)
  \/ \E u \in MsgCallers, r \in MsgUsers \cup {Undefined, ""},
        c \in {Undefined, "", "hi"} :
        \E l \in ListingRefs(u, r) : SendMessage(u, r, c, l)

SpecMsg == Init /\ [][NextMsg]_vars

\* ------------------------------------------------------- specification
Callers == Users \cup {NoUser}

Next ==
  \/ \E u \in Callers, l \in ListingIds : AddToCart(u, l)
  \/ \E u \in Users, cid \in IssuedCartIds : RemoveItem(u, cid)
  \/ \E u \in Callers, ids \in SUBSET IssuedCartIds : createCheckoutSession(u, ids)
  \/ \E n \in SessionIdx : ProviderPay(n)
  \/ \E u \in Callers, h \in KnownHandles : completeCheckout(u, h)
  \/ \E s \in Slots, ok \in BOOLEAN : CC_InsertOrder(s, ok)
  \/ \E s \in Slots, ok \in BOOLEAN : CC_UpdateListing(s, ok)
  \/ \E s \in Slots, ok \in BOOLEAN : CC_Delete(s, ok)

\* the checkout workflow: the cart, the provider and completeCheckout. The
\* cart page's quantity update and the dashboard's delete write only
\* cart_items.quantity and listings.status = 'removed'; they run in SpecStore.
Spec == Init /\ [][Next]_vars

NextStore ==
  \/ Next
  \/ \E u \in Users, c \in cart_items, d \in {-1, 1} :
        UpdateQuantity(u, c.id, c.quantity + d)
  \/ \E u \in Users, l \in ListingIds : handleDelete(u, l)

SpecStore == Init /\ [][NextStore]_vars

\* ------------------------------------------- cart page (CartPage state)
\* mutant: the reduce without the quantity
ItemAmount_NoQuantity(item) == item.price

\* item.listings.price * item.quantity, the term of the page's reduce
ItemAmount(item) == item.price * item.quantity

RECURSIVE PageTotal(_)
\* reduce((sum, item) => sum + item.listings.price * item.quantity, 0)
PageTotal(items) ==
  IF items = {} THEN 0
  ELSE LET item == CHOOSE x \in items : TRUE
       IN ItemAmount(item) + PageTotal(items \ {item})

\* select id, listing_id, quantity, listings(price, ...) where buyer_id = u
FetchedItems(u) ==
  {[id |-> c.id, listing_id |-> c.listing_id, quantity |-> c.quantity,
    price |-> listings[c.listing_id].price] :
     c \in {x \in cart_items : cart_items_own(u, x) /\ x.buyer_id = u}}

\* fetchCart, once when the page is opened: setCartItems(data),
\* setTotal(cartTotal)
fetchCart ==
  /\ Authenticated(CartViewer)
  /\ ~cartPage.loaded
  /\ cartPage' = [cartPage EXCEPT !.loaded = TRUE,
                                  !.cartItems = FetchedItems(CartViewer),
                                  !.total = PageTotal(FetchedItems(CartViewer))]
  /\ last' = [op |-> "fetchCart", outcome |-> "ok"]
  /\ UNCHANGED <<checkoutVars, msgVars, chat>>

\* a click on the minus (d = -1) or plus (d = 1) button of a displayed item:
\* handleUpdateQuantity(item.id, item.quantity + d) starts, closing over the
\* cartItems of the render the button belongs to, and sends the update
handleUpdateQuantity_Click(h, item, d) ==
  /\ cartPage.loaded
  /\ cartPage.handlers[h] = Idle
  /\ item \in cartPage.cartItems
  /\ cartPage.updatingId # item.id
  /\ d = -1 => ~(item.quantity <= 1)
  /\ item.quantity + d <= MaxQty
  /\ IF item.quantity + d < 1
     THEN UNCHANGED cartPage
     ELSE cartPage' = [cartPage EXCEPT
            !.updatingId = item.id,
            !.handlers[h] = [pc |-> "await", op |-> "update",
                             cartItemId |-> item.id,
                             newQuantity |-> item.quantity + d,
                             cartItems |-> cartPage.cartItems]]
  /\ last' = [op |-> "handleUpdateQuantity.click", outcome |-> "ok"]
  /\ UNCHANGED <<checkoutVars, msgVars, chat>>

\* the await completes: the store has handled update cart_items set quantity
\* where id = cartItemId, or the request failed. On an error nothing but the
\* finally, otherwise setCartItems(updatedItems), setTotal(newTotal);
\* finally setUpdatingId(null)
handleUpdateQuantity_Await(h, ok) ==
  /\ cartPage.handlers[h] # Idle
  /\ cartPage.handlers[h].op = "update"
  /\ LET call == cartPage.handlers[h]
         updatedItems ==
           {IF item.id = call.cartItemId
              THEN [item EXCEPT !.quantity = call.newQuantity]
              ELSE item : item \in call.cartItems}
     IN IF ~ok
        THEN /\ UNCHANGED cart_items
             /\ cartPage' = [cartPage EXCEPT !.updatingId = "null",
                                             !.handlers[h] = Idle]
             /\ last' = [op |-> "handleUpdateQuantity", outcome |-> "error"]
        ELSE /\ cart_items' =
                  {IF c.id = call.cartItemId /\ cart_items_own(CartViewer, c)
                     THEN [c EXCEPT !.quantity = call.newQuantity]
                     ELSE c : c \in cart_items}
             /\ cartPage' = [cartPage EXCEPT !.cartItems = updatedItems,
                                             !.total = PageTotal(updatedItems),
                                             !.updatingId = "null",
                                             !.handlers[h] = Idle]
             /\ last' = [op |-> "handleUpdateQuantity", outcome |-> "ok"]
  /\ UNCHANGED <<listings, orders, sessions, calls, nextCartId,
               finalized, messages, clock, schema, chat>>

\* a click on the remove button of a displayed item: handleRemoveItem(item.id)
\* starts, closing over the cartItems of that render, and sends the delete
handleRemoveItem_Click(h, item) ==
  /\ cartPage.loaded
  /\ cartPage.handlers[h] = Idle
  /\ item \in cartPage.cartItems
  /\ cartPage' = [cartPage EXCEPT
         !.handlers[h] = [pc |-> "await", op |-> "remove",
                          cartItemId |-> item.id,
                          cartItems |-> cartPage.cartItems]]
  /\ last' = [op |-> "handleRemoveItem.click", outcome |-> "ok"]
  /\ UNCHANGED <<checkoutVars, msgVars, chat>>

\* the await completes: the store has handled delete from cart_items where
\* id = cartItemId, or the request failed. On an error nothing, otherwise
\* setCartItems(updatedItems), setTotal(newTotal)
handleRemoveItem_Await(h, ok) ==
  /\ cartPage.handlers[h] # Idle
  /\ cartPage.handlers[h].op = "remove"
  /\ LET call == cartPage.handlers[h]
         updatedItems == {item \in call.cartItems : item.id # call.cartItemId}
     IN IF ~ok
        THEN /\ UNCHANGED cart_items
             /\ cartPage' = [cartPage EXCEPT !.handlers[h] = Idle]
             /\ last' = [op |-> "handleRemoveItem", outcome |-> "error"]
        ELSE /\ cart_items' =
                  {c \in cart_items :
                     ~(c.id = call.cartItemId /\ cart_items_own(CartViewer, c))}
             /\ cartPage' = [cartPage EXCEPT !.cartItems = updatedItems,
                                             !.total = PageTotal(updatedItems),
                                             !.handlers[h] = Idle]
             /\ last' = [op |-> "handleRemoveItem", outcome |-> "ok"]
  /\ UNCHANGED <<listings, orders, sessions, calls, nextCartId,
               finalized, messages, clock, schema, chat>>

\* the cart is filled from the listing pages, then the cart page is opened
NextCart ==
  \/ \E l \in ListingIds : ~cartPage.loaded /\ AddToCart(CartViewer, l)
  \/ fetchCart
  \/ \E h \in Handlers, item \in cartPage.cartItems, d \in {-1, 1} :
        handleUpdateQuantity_Click(h, item, d)
  \/ \E h \in Handlers, ok \in BOOLEAN : handleUpdateQuantity_Await(h, ok)
  \/ \E h \in Handlers, item \in cartPage.cartItems : handleRemoveItem_Click(h, item)
  \/ \E h \in Handlers, ok \in BOOLEAN : handleRemoveItem_Await(h, ok)

\* the open cart page of CartViewer, whose event handlers may overlap
SpecCart == Init /\ [][NextCart]_vars

\* the checkout workflow with completeCheckout invocations overlapping: a
\* retry may start while an earlier invocation is between two store calls
NextConcurrent ==
  \/ \E l \in ListingIds : AddToCart("u1", l)
  \/ \E ids \in SUBSET IssuedCartIds : createCheckoutSession("u1", ids)
  \/ \E n \in SessionIdx : ProviderPay(n)
  \/ \E h \in KnownHandles : CC_Start("u1", h)
  \/ \E s \in Slots, ok \in BOOLEAN : CC_InsertOrder(s, ok)
  \/ \E s \in Slots, ok \in BOOLEAN : CC_UpdateListing(s, ok)
  \/ \E s \in Slots, ok \in BOOLEAN : CC_Delete(s, ok)

SpecConcurrent == Init /\ [][NextConcurrent]_vars

\* one signed-in user and a request without a session, over the checkout
\* and the message handlers together
AuthCallers == {"u1", NoUser}

NextAuth ==
  \/ \E u \in AuthCallers : AddToCart(u, "L1")
  \/ \E u \in AuthCallers, ids \in SUBSET IssuedCartIds : createCheckoutSession(u, ids)
  \/ \E n \in SessionIdx : ProviderPay(n)
  \/ \E u \in AuthCallers, h \in KnownHandles : completeCheckout(u, h)
  \/ \E s \in Slots, ok \in BOOLEAN : CC_InsertOrder(s, ok)
  \/ \E s \in Slots, ok \in BOOLEAN : CC_UpdateListing(s, ok)
  \/ \E s \in Slots, ok \in BOOLEAN : CC_Delete(s, ok)
  \/ \E u \in AuthCallers : ListConversations(u)
  \/ \E u \in AuthCallers : GetThread(u, "u2")
  \/ \E u \in AuthCallers : SendMessage(u, "u2", "hi", Undefined)

SpecAuth == Init /\ [][NextAuth]_vars

\* the prices a seller may set on a listing already on sale
NewPrices == {24900}

\* the store's API, open to every signed-in client: update listings set
\* price where id = l, which listings_update_own lets the seller do
UpdateListingPrice(u, l, price) ==
  /\ listings_update_own(u, l)
  /\ listings[l].price # price
  /\ listings' = [listings EXCEPT ![l].price = price]
  /\ last' = [op |-> "updateListingPrice", outcome |-> "ok"]
  /\ UNCHANGED <<cart_items, orders, sessions, calls, nextCartId,
               finalized, messages, clock, schema, pageVars>>

NextPrice ==
  \/ Next
  \/ \E u \in Users, p \in NewPrices : UpdateListingPrice(u, "L1", p)

\* the checkout workflow with sellers repricing their listings
SpecPrice == Init /\ [][NextPrice]_vars

\* ================================================================ claims

\* C1: when completeCheckout returns success for a paid session, every
\* listing of a cart row matched by that call has status 'sold' and none of
\* those cart rows is left in cart_items.
C1_PaidListingsSoldCartCleared ==
  [][\A s \in Slots : CC_Delete(s, TRUE) =>
        \A item \in calls[s].matched :
           /\ listings'[item.listing_id].status = "sold"
           /\ \A c \in cart_items' : c.id # item.id]_vars

C3_UnpaidChangesNothing ==
  [][\A u \in Users, h \in KnownHandles :
        (completeCheckout(u, h)
           /\ \E n \in SessionOf(h) : sessions[n].payment_status # "paid")
          => /\ last'.op = "completeCheckout"
             /\ last'.outcome = "Payment not completed"
             /\ UNCHANGED <<orders, listings, cart_items, calls>>]_vars

C3_Witness ==
  /\ last.op = "completeCheckout" /\ last.outcome = "Payment not completed"
  /\ cart_items # {}
  /\ \E n \in SessionIdx : sessions[n].payment_status = "unpaid"

\* C4: createCheckoutSession with no id of a cart row the caller owns (the
\* empty list, ids of another buyer, ids of removed rows) fails with "Cart
\* items not found" and creates no session.
C4_NotOwnedNotFound ==
  [][\A u \in Users, ids \in SUBSET IssuedCartIds :
        (createCheckoutSession(u, ids)
           /\ \A c \in cart_items : c.id \in ids => c.buyer_id # u)
          => /\ last'.op = "createCheckoutSession"
             /\ last'.outcome = "Cart items not found"
             /\ sessions' = sessions]_vars

C4_Witness ==
  /\ last.op = "createCheckoutSession" /\ last.outcome = "Cart items not found"
  /\ cart_items # {}
  /\ sessions = <<>>

RECURSIVE SessionTotal(_)
SessionTotal(items) ==
  IF items = <<>> THEN 0
  ELSE Head(items).unit_amount * Head(items).quantity + SessionTotal(Tail(items))

RECURSIVE PriceSum(_)
PriceSum(rows) ==
  IF rows = {} THEN 0
  ELSE LET r == CHOOSE x \in rows : TRUE
       IN listings[r.listing_id].price + PriceSum(rows \ {r})

\* C5: a created session has exactly one line item per cart row of the
\* caller among the ids, each of quantity 1 and of unit amount 100 times
\* the listing's stored price (the stored number of hundredths), so that the
\* session total is 100 times the sum of those prices.
C5_LineItemsFromStorePrices ==
  [][\A u \in Users, ids \in SUBSET IssuedCartIds :
        (createCheckoutSession(u, ids) /\ sessions' # sessions)
          => LET items == sessions'[Len(sessions')].line_items
                 rows == {c \in cart_items : c.id \in ids /\ c.buyer_id = u}
             IN /\ Len(items) = Cardinality(rows)
                /\ \A c \in rows :
                     \E i \in 1..Len(items) :
                        /\ items[i].cart_item = c.id
                        /\ items[i].quantity = 1
                        /\ items[i].unit_amount = listings[c.listing_id].price
                        /\ \A j \in 1..Len(items) : items[j].cart_item = c.id => j = i
                /\ SessionTotal(items) = PriceSum(rows)]_vars

C5_Witness ==
  /\ last.op = "createCheckoutSession" /\ last.outcome = "ok"
  /\ \E n \in SessionIdx :
       /\ Len(sessions[n].line_items) = 2
       /\ SessionTotal(sessions[n].line_items) = 54900

\* C6: when the GET of the thread of caller u with x has completed, every
\* message from x to u has read = true in the store, and the conversation
\* list of u then reports unreadCount 0 for x.
C6_ThreadFetchMarksRead ==
  [][\A u \in MsgUsers, x \in MsgUsers :
        GetThread(u, x) =>
          /\ \A i \in 1..Len(messages') :
                (messages'[i].sender_id = x /\ messages'[i].receiver_id = u)
                   => messages'[i].read
          /\ \A resp \in ListResponses(u)' :
                \A i \in 1..Len(resp) : resp[i].userId = x => resp[i].unreadCount = 0]_vars

\* the stored unread messages from x to u
UnreadFrom(u, x) ==
  {m \in MessageRows : m.sender_id = x /\ m.receiver_id = u /\ ~m.read}

\* C7 as claimed: unreadCount of the conversation with X is the number of
\* stored unread messages from X to the caller, and no message the caller
\* sent to X is among the counted ones.
C7_UnreadCountNeverCountsSent ==
  \A u \in MsgUsers :
    \A data \in Orderings(ConversationRows(u), FALSE) :
      \A i \in 1..Len(ConversationList(u, data)) :
        LET c == ConversationList(u, data)[i]
            counted == Range(UnreadOf(u, MapGet(u, data, c.userId)))
        IN /\ c.unreadCount = Cardinality(UnreadFrom(u, c.userId))
           /\ \A m \in counted : ~(m.sender_id = u /\ m.receiver_id = c.userId)

\* C7 as amended: unreadCount of the conversation with X is the number of
\* stored unread messages from X to the caller; a message the caller sent
\* to another user X is never among the counted ones.
C7_UnreadCount ==
  \A u \in MsgUsers :
    \A data \in Orderings(ConversationRows(u), FALSE) :
      \A i \in 1..Len(ConversationList(u, data)) :
        LET c == ConversationList(u, data)[i]
            counted == Range(UnreadOf(u, MapGet(u, data, c.userId)))
        IN /\ c.unreadCount = Cardinality(UnreadFrom(u, c.userId))
           /\ c.userId # u =>
                \A m \in counted : ~(m.sender_id = u /\ m.receiver_id = c.userId)

C7_Witness ==
  /\ last.op = "list_conversations" /\ last.outcome = "ok"
  /\ \E u \in MsgUsers : \E x \in MsgUsers \ {u} :
       /\ \E m \in MessageRows : m.sender_id = u /\ m.receiver_id = x
       /\ \E resp \in ListResponses(u) :
            \E i \in 1..Len(resp) : resp[i].userId = x /\ resp[i].unreadCount = 1

\* C8: the conversation list is in descending order of lastMessage.created_at
\* and each lastMessage is a newest message exchanged between the caller and
\* that counterpart.
C8_NewestConversationFirst ==
  \A u \in MsgUsers :
    \A resp \in ListResponses(u) :
      /\ \A i, j \in 1..Len(resp) :
           i < j => resp[i].lastMessage.created_at >= resp[j].lastMessage.created_at
      /\ \A i \in 1..Len(resp) :
           /\ resp[i].lastMessage \in ThreadRows(u, resp[i].userId)
           /\ \A m \in ThreadRows(u, resp[i].userId) :
                m.created_at <= resp[i].lastMessage.created_at

C8_Witness ==
  /\ last.op = "list_conversations" /\ last.outcome = "ok"
  /\ \E u \in MsgUsers :
       \E resp \in ListResponses(u) :
          /\ Len(resp) = 2
          /\ u \notin {resp[1].userId, resp[2].userId}
          /\ resp[1].lastMessage.created_at > resp[2].lastMessage.created_at

\* C9: the order a completeCheckout inserts for a matched cart row has the
\* caller as buyer, the row's listing, that listing's stored seller and
\* price, status 'completed' and the session's payment_intent; and a listing
\* is set to sold for a cart row only after the order for that row is in.
C9_OrderFieldsAndSequence ==
  [][\A s \in Slots :
       /\ (CC_InsertOrder(s, TRUE) /\ orders' # orders) =>
            LET o == orders'[Len(orders')]
            IN /\ Len(orders') = Len(orders) + 1
               /\ \E item \in calls[s].matched :
                    /\ item.id = o.cart_item
                    /\ o.listing_id = item.listing_id
               /\ o.buyer_id = calls[s].user
               /\ o.seller_id = listings[o.listing_id].seller_id
               /\ o.total_amount = listings[o.listing_id].price
               /\ o.status = "completed"
               /\ \E n \in SessionOf(calls[s].sid) :
                    o.payment_id = sessions[n].payment_intent
       /\ (CC_UpdateListing(s, TRUE) /\ listings' # listings) =>
            \E i \in 1..Len(orders) :
               /\ orders[i].cart_item = calls[s].item.id
               /\ orders[i].buyer_id = calls[s].user
               /\ listings'[orders[i].listing_id].status = "sold"
               /\ listings[orders[i].listing_id].status # "sold"]_vars

C9_Witness ==
  /\ last.op = "completeCheckout.update"
  /\ \E i \in 1..Len(orders) :
       /\ listings[orders[i].listing_id].status = "sold"
       /\ orders[i].payment_id = "pi_1"

\* C10: when completeCheckout returns success to the buyer of a paid
\* session, exactly one order exists for each cart row charged as a line
\* item of the session, whatever the buyer did to the cart in between.
C10_OneOrderPerChargedItem ==
  [][\A s \in Slots : CC_Delete(s, TRUE) =>
        \A n \in SessionOf(calls[s].sid) :
          \A i \in 1..Len(sessions[n].line_items) :
           calls[s].user = sessions[n].metadata.buyer_id =>
             Cardinality({j \in 1..Len(orders') :
                /\ orders'[j].cart_item = sessions[n].line_items[i].cart_item
                /\ orders'[j].payment_id = sessions[n].payment_intent}) = 1]_vars

\* C11: the order completeCheckout inserts for a cart row has as total_amount
\* the price createCheckoutSession charged for that row (100 times the total
\* is the line item's unit amount), whatever the seller did to the listing's
\* price in between.
C11_OrderTotalIsChargedAmount ==
  [][\A s \in Slots :
       (CC_InsertOrder(s, TRUE) /\ orders' # orders) =>
          LET o == orders'[Len(orders')]
          IN \A n \in SessionOf(calls[s].sid) :
               \A i \in 1..Len(sessions[n].line_items) :
                  (/\ sessions[n].line_items[i].cart_item = o.cart_item
                   /\ sessions[n].metadata.buyer_id = o.buyer_id)
                    => o.total_amount = sessions[n].line_items[i].unit_amount]_vars

\* C12: a listing whose status is 'sold' has status 'sold' after every step
\* of the program, the dashboard's delete included.
C12_SoldStaysSold ==
  [][\A l \in ListingIds :
        listings[l].status = "sold" => listings'[l].status = "sold"]_vars

\* C13: cart_items never holds two rows of the same buyer and listing,
\* however often a buyer adds the same listing.
C13_OneCartRowPerBuyerListing ==
  \A c, d \in cart_items :
     (c.buyer_id = d.buyer_id /\ c.listing_id = d.listing_id) => c = d

C15_MissingFieldsRejected ==
  [][\A u \in MsgUsers, r \in MsgUsers \cup {Undefined, ""},
        c \in {Undefined, "", "hi"} :
        \A l \in ListingRefs(u, r) :
          (SendMessage(u, r, c, l) /\ (r \in {Undefined, ""} \/ c \in {Undefined, ""}))
            => /\ last'.op = "send_message"
               /\ last'.outcome = "Missing required fields"
               /\ messages' = messages]_vars

C15_Witness ==
  /\ last.op = "send_message" /\ last.outcome = "Missing required fields"
  /\ messages # <<>>

\* C16: a POST with a receiver and a non-empty content appends exactly one
\* message whose sender is the caller, with the given receiver and content,
\* the given listing or null, and read = false; the response is that stored
\* row; the messages stored before are unchanged.
C16_SendInsertsOneRow ==
  [][\A u \in MsgUsers, r \in MsgUsers, l \in {Undefined, "L1"} :
        SendMessage(u, r, "hi", l) =>
          /\ Len(messages') = Len(messages) + 1
          /\ SubSeq(messages', 1, Len(messages)) = messages
          /\ LET m == messages'[Len(messages')]
             IN /\ m.sender_id = u
                /\ m.receiver_id = r
                /\ m.content = "hi"
                /\ m.listing_id = (IF l = "L1" THEN "L1" ELSE "null")
                /\ ~m.read
                /\ \A i \in 1..Len(messages) : messages[i].id # m.id
                /\ \E now \in {clock, clock + 1} : MessageRow(u, r, "hi", l, now) = m
          /\ last'.outcome = "ok"]_vars

C16_Witness ==
  /\ last.op = "send_message" /\ last.outcome = "ok"
  /\ Len(messages) = 2
  /\ messages[2].listing_id = "L1"
  /\ messages[1].listing_id = "null"

\* C17: the GET of the thread of caller u with x responds with exactly the
\* stored messages sent by u to x or by x to u, each once, oldest first, and
\* with no message of a third user.
C17_ThreadIsTheTwoUsersMessages ==
  \A u \in MsgUsers, x \in MsgUsers :
    \A resp \in ThreadResponses(u, x) :
      /\ Range(resp) =
           {m \in MessageRows : \/ m.sender_id = u /\ m.receiver_id = x
                                \/ m.sender_id = x /\ m.receiver_id = u}
      /\ \A i, j \in 1..Len(resp) :
           /\ i < j => resp[i].created_at <= resp[j].created_at
           /\ i # j => resp[i] # resp[j]
      /\ \A i \in 1..Len(resp) :
           {resp[i].sender_id, resp[i].receiver_id} \subseteq {u, x}

C17_Witness ==
  /\ last.op = "get_thread" /\ last.outcome = "ok"
  /\ \E u \in MsgUsers : \E x \in MsgUsers \ {u} :
       /\ \E resp \in ThreadResponses(u, x) :
            Len(resp) = 1 /\ resp[1].sender_id = x
       /\ \E m \in MessageRows : u \in {m.sender_id, m.receiver_id} /\ x \notin {m.sender_id, m.receiver_id}

\* C18: without a signed-in user each of createCheckoutSession,
\* completeCheckout, the conversation list, the thread and the send is
\* answered with its unauthenticated error, and nothing of the store or of
\* the payment provider has been touched.
C18_UnauthenticatedTouchesNothing ==
  [][/\ \A ids \in SUBSET IssuedCartIds :
          createCheckoutSession(NoUser, ids) =>
             /\ last' = [op |-> "createCheckoutSession",
                         outcome |-> "User not authenticated"]
             /\ UNCHANGED <<checkoutVars, msgVars>>
     /\ \A h \in KnownHandles :
          completeCheckout(NoUser, h) =>
             /\ last' = [op |-> "completeCheckout",
                         outcome |-> "User not authenticated"]
             /\ UNCHANGED <<checkoutVars, msgVars>>
     /\ ListConversations(NoUser) =>
          /\ last' = [op |-> "list_conversations", outcome |-> "Unauthorized"]
          /\ UNCHANGED <<checkoutVars, msgVars>>
     /\ \A x \in MsgUsers :
          GetThread(NoUser, x) =>
             /\ last' = [op |-> "get_thread", outcome |-> "Unauthorized"]
             /\ UNCHANGED <<checkoutVars, msgVars>>
     /\ \A r \in MsgUsers \cup {Undefined, ""}, c \in {Undefined, "", "hi"} :
          SendMessage(NoUser, r, c, Undefined) =>
             /\ last' = [op |-> "send_message", outcome |-> "Unauthorized"]
             /\ UNCHANGED <<checkoutVars, msgVars>>]_vars

C18_Witness ==
  /\ last = [op |-> "completeCheckout", outcome |-> "User not authenticated"]
  /\ \E n \in SessionIdx : sessions[n].payment_status = "paid"
  /\ cart_items # {}
  /\ \E i \in 1..Len(messages) : ~messages[i].read

\* C19: completeCheckout returns success only when none of its store writes
\* (the order inserts, the listing updates, the cart delete) was answered
\* with an error; a failed write ends the call with an error.
C19_SuccessOnlyIfAllWritesSucceeded ==
  [][\A s \in Slots :
       /\ CC_Delete(s, TRUE) => ~calls[s].failed
       /\ (CC_InsertOrder(s, FALSE) \/ CC_Delete(s, FALSE)) =>
             /\ calls'[s].pc = "idle"
             /\ last'.op = "completeCheckout"
             /\ last'.outcome \in {"orderError", "deleteError"}]_vars

\* C20: over all completeCheckout invocations of a caller with a paid
\* session, retries after a failure included, at most one order is ever
\* inserted for a cart row of that session.
C20_AtMostOneOrderPerCartItem ==
  \A i, j \in 1..Len(orders) :
     (/\ orders[i].cart_item = orders[j].cart_item
      /\ orders[i].buyer_id = orders[j].buyer_id
      /\ orders[i].payment_id = orders[j].payment_id) => i = j

C22_InsertFailureAborts ==
  [][\A s \in Slots :
       (CC_InsertOrder(s, FALSE) /\ calls[s].pc = "loop") =>
         /\ calls'[s] = Idle
         /\ last' = Done(calls[s], "orderError")
         /\ UNCHANGED <<orders, listings, cart_items, finalized>>]_vars

C22_Witness ==
  /\ last.op = "completeCheckout" /\ last.outcome = "orderError"
  /\ Len(orders) = 1
  /\ listings[orders[1].listing_id].status = "sold"
  /\ Cardinality(cart_items) = 2
  /\ finalized = {}

\* C23: a completeCheckout by a caller other than the buyer recorded in the
\* paid session inserts no order, changes no listing and deletes no cart
\* row of that buyer.
C23_OtherCallerChangesNothing ==
  [][\A s \in Slots :
       (/\ calls[s].pc # "idle"
        /\ \E n \in SessionOf(calls[s].sid) :
              sessions[n].metadata.buyer_id # calls[s].user
        /\ calls'[s] # calls[s])
         => /\ orders' = orders
            /\ \A l \in ListingIds : listings'[l].status = listings[l].status
            /\ \A c \in cart_items :
                 (\E n \in SessionOf(calls[s].sid) :
                     c.buyer_id = sessions[n].metadata.buyer_id) => c \in cart_items']_vars

\* C24: the cart ids recorded in the session metadata are exactly the ids of
\* the cart rows matched for the caller (those with a line item), and the
\* delete of completeCheckout removes exactly the rows the call matched.
C24_MetadataIsMatchedIds ==
  [][/\ \A u \in Users, ids \in SUBSET IssuedCartIds :
          (createCheckoutSession(u, ids) /\ sessions' # sessions) =>
             LET session == sessions'[Len(sessions')]
             IN Range(Split(session.metadata.cart_item_ids)) =
                  {session.line_items[i].cart_item : i \in 1..Len(session.line_items)}
     /\ \A s \in Slots :
          CC_Delete(s, TRUE) =>
             cart_items \ cart_items' =
               {c \in cart_items : c.id \in {m.id : m \in calls[s].matched}}]_vars

\* C26: the conversation list of a caller has exactly one entry per distinct
\* counterpart of the caller's stored messages (sent or received), none for
\* anyone else, and each of those messages is in exactly one group.
C26_OneConversationPerCounterpart ==
  \A u \in MsgUsers :
    \A data \in Orderings(ConversationRows(u), FALSE) :
      LET resp == ConversationList(u, data)
          mine == {m \in MessageRows : m.sender_id = u \/ m.receiver_id = u}
          counterparts ==
            {IF m.sender_id = u THEN m.receiver_id ELSE m.sender_id : m \in mine}
      IN /\ {resp[i].userId : i \in 1..Len(resp)} = counterparts
         /\ Len(resp) = Cardinality(counterparts)
         /\ \A m \in mine :
              Cardinality({i \in 1..Len(resp) :
                             m \in Range(MapGet(u, data, resp[i].userId))}) = 1

C26_Witness ==
  /\ last.op = "list_conversations" /\ last.outcome = "ok"
  /\ \E u \in MsgUsers : \E x \in MsgUsers \ {u} :
       /\ \E m \in MessageRows : m.sender_id = u /\ m.receiver_id = x
       /\ \E m \in MessageRows : m.sender_id = x /\ m.receiver_id = u
       /\ \E resp \in ListResponses(u) : Len(resp) = 1 /\ resp[1].userId = x

\* C28: when the embedded checkout of the checkout page signals completion,
\* the page calls completeCheckout with the id of the session its
\* createCheckoutSession created, and completeCheckout retrieves that
\* session and goes on to record the orders.
C28_PageFinalizesItsSession ==
  [][\A u \in Users, n \in SessionIdx :
        handleCheckoutComplete(u, n) =>
          /\ ReturnedToPage(sessions[n]) = sessions[n].id
          /\ \E s \in Slots :
               calls'[s].pc = "loop" /\ calls'[s].sid = sessions[n].id]_vars

\* C29: the total a created session charges for the caller's cart rows is
\* the total the cart page shows for those rows, the sum of price times
\* quantity.
C29_ChargedTotalIsCartTotal ==
  [][\A u \in Users, ids \in SUBSET IssuedCartIds :
        (createCheckoutSession(u, ids) /\ sessions' # sessions) =>
           SessionTotal(sessions'[Len(sessions')].line_items) =
             CartTotal({c \in cart_items : c.id \in ids /\ c.buyer_id = u})]_vars

\* C25 (the part a finite run decides): a message the thread view displays
\* is displayed after every later step, for any interleaving of the poll
\* responses with the viewer's own send.
C25_DisplayedMessagesStay ==
  [][\A i \in 1..Len(chat.view) :
        \E j \in 1..Len(chat.view') : chat.view'[j].id = chat.view[i].id]_vars

\* C27: every message the update of a thread request marks as read is one
\* of the rows that request's select returned, also when the counterpart
\* sends between the select and the update.  Under the policies of the
\* messages table the update reaches no row, so no step marks a message.
C27_MarkedReadWereReturned ==
  [][GT_Update =>
       \A i \in 1..Len(messages) :
          (messages'[i].read /\ ~messages[i].read) =>
             \E j \in 1..Len(chat.get.data) : chat.get.data[j].id = messages[i].id]_vars

RECURSIVE SumPriceQuantity(_)
\* the sum of price times quantity over a set of displayed items
SumPriceQuantity(items) ==
  IF items = {} THEN 0
  ELSE LET i == CHOOSE x \in items : TRUE
       IN i.price * i.quantity + SumPriceQuantity(items \ {i})

\* C30: after every step of the cart page every cart item's quantity is at
\* least 1 in the store and on the page, and the page's total is the sum of
\* price times quantity over the items it displays; a handler whose store
\* call failed leaves the page's items and total as they were.
C30_CartPageConsistent ==
  [][/\ \A c \in cart_items' : c.quantity >= 1
     /\ \A i \in cartPage'.cartItems : i.quantity >= 1
     /\ cartPage'.total = SumPriceQuantity(cartPage'.cartItems)
     /\ \A h \in Handlers :
          (handleUpdateQuantity_Await(h, FALSE) \/ handleRemoveItem_Await(h, FALSE)) =>
            /\ cartPage'.cartItems = cartPage.cartItems
            /\ cartPage'.total = cartPage.total]_vars

C30_Witness ==
  /\ last.op = "handleUpdateQuantity" /\ last.outcome = "ok"
  /\ Cardinality(cartPage.cartItems) = 2
  /\ \E i \in cartPage.cartItems : i.quantity = 2
  /\ \E c \in cart_items : c.quantity = 2
  /\ cartPage.total = SumPriceQuantity(cartPage.cartItems)

====
